---- MODULE Spec2Model ----
(***************************************************************************)
(* Model of tui-event-controller: the event hub (src/src/controller.rs)    *)
(* and the listener wrappers (src/src/widget.rs).                          *)
(*                                                                         *)
(* The host thread runs the main loop and every callback; producer threads *)
(* only push events into the mpsc channel.  A dispatch pass                *)
(* (recv_and_notify) is split at the points where user code runs: the      *)
(* blocking recv, and the entry and return of each callback.  Everything   *)
(* the host can do between passes it can also do inside a callback,        *)
(* through ctx.controller and the &mut state it is handed, a nested        *)
(* recv_and_notify included.                                               *)
(***************************************************************************)
EXTENDS Integers, Sequences, FiniteSets

\* ---------------------------------------------------------------- bounds
\* callbacks registered (Rc::new(callback)) in one behaviour
MaxRegs == 2
\* events sent in one behaviour
MaxSends == 2

\* listener keys; key 1 is the unique_key of the wrapped component type
Keys == {1, 2}
\* wrapper instances, all of the same component type
Wrappers == {1, 2}
\* producer threads
Producers == {1, 2}
\* event sources: the host thread (0) and the producer threads
Sources == {0} \cup Producers
\* rectangles handed to render_ref
Areas == {1, 2}
\* values of the widget state (W::State) handed to the stateful render_ref
WidgetStates == {1, 2}

\* Option::None: no area, no map entry, no wrapper, no pass
None == 0

VARIABLES
    callbacks,   \* InternalEventController.callbacks : key -> callback id (None = absent)
    queue,       \* the mpsc channel's buffer
    handles,     \* does producer thread p hold a Sender clone
    sent,        \* number of events sent so far by each source
    wrappers,    \* each InteractiveWidget: [st, area, cb, rendered]
    stack,       \* recv_and_notify activations of the host thread, innermost last
    borrow,      \* RefCell borrow flag of rc: n >= 0 shared borrows, -1 mutable
    panicked,    \* "none" | "hub" (BorrowMutError on rc) | "area" (on an area cell)
    regs,        \* every Rc::new(callback) made so far, by id: [key, owner]
    log,         \* every callback invocation so far: [cb, event, area, pass]
    lastOp,      \* the last remove, send or invocation and its outcome, when recorded
    root         \* the application's EventController handle is alive

vars == <<callbacks, queue, handles, sent, wrappers, stack, borrow, panicked,
          regs, log, lastOp, root>>

\* ------------------------------------------------------------ pure parts

\* W::unique_key(): a function of the component type alone
\* (a key per wrapper instance, for comparison)
unique_key_per_instance(w) == w
unique_key(w) == 1

\* HashMap::insert: the entry of id is overwritten
\* (an insert that keeps an existing entry, and one that evicts the other
\* keys, for comparison)
add_listener_evict(m, id, cb) == [j \in DOMAIN m |-> IF j = id THEN cb ELSE None]
add_listener_keep(m, id, cb) == IF m[id] = None THEN [m EXCEPT ![id] = cb] ELSE m
add_listener(m, id, cb) == [m EXCEPT ![id] = cb]

\* HashMap::remove, result discarded
\* (a remove that does nothing and one that empties the map, for comparison)
remove_listener_noop(m, id) == m
remove_listener_clear(m, id) == [k \in DOMAIN m |-> None]
remove_listener(m, id) == [m EXCEPT ![id] = None]

\* Drop::drop of a wrapper: remove_listener(unique_key())
\* (a drop that leaves the listener registered, for comparison)
drop_noop(m, w) == m
drop(m, w) == remove_listener(m, unique_key(w))

\* RefCell::borrow_mut / RefCell::borrow succeed
borrow_mut_ok(b) == b = 0
borrow_ok(b) == b >= 0

\* Sender handles alive: the hub's own `sender` field plus the clones held
hub_sender == 1
senders(h) == hub_sender + Cardinality({p \in DOMAIN h : h[p]})

\* Rc::strong_count of rc: the application's handle and the rc_clone each
\* live wrapper keeps in its `controller` field; the registered closures
\* capture the area cell only
\* (wrappers that would not keep the hub alive, for comparison)
holders_root_only(r, ws) == IF r THEN 1 ELSE 0
holders(r, ws) ==
    (IF r THEN 1 ELSE 0) + Cardinality({w \in DOMAIN ws : ws[w].st = "live"})

\* mpsc::Sender::send on the unbounded channel: the event goes to the back
\* (a send that overtakes the queued events, for comparison)
send_front(q, e) == <<e>> \o q
send(q, e) == Append(q, e)

\* mpsc::Receiver::recv with n senders alive
recv(q, n) == IF q # <<>> THEN "ok" ELSE IF n = 0 THEN "err" ELSE "block"

\* the Ref taken in `self.rc.borrow().receiver.recv()?` is a temporary of
\* the let statement: it is released before the callbacks run
\* (a Ref kept across the loop, for comparison)
release_kept(b) == b
release(b) == b - 1

\* `let callbacks = self.rc.borrow().callbacks.clone();
\*  for callback in callbacks.values()`: the (key, callback) pairs the loop
\* has still to visit, given the keys it has visited
\* (an iteration over the live map, as in src/src/main.rs, for comparison)
values_live(snapshot, live, done) ==
    {<<k, live[k]>> : k \in {j \in DOMAIN live : live[j] # None /\ j \notin done}}
values(snapshot, live, done) ==
    {<<k, snapshot[k]>> : k \in {j \in DOMAIN snapshot : snapshot[j] # None /\ j \notin done}}

\* render_ref: *self.area.borrow_mut() = Some(area)
\* (a render that does not store the area, for comparison)
render_ref_skip(old, a) == old
render_ref(old, a) == a

\* StatefulWidgetRef::render_ref of InteractiveStatefulWidget:
\* *self.area.borrow_mut() = Some(area); the widget state goes to the
\* wrapped widget only
\* (a render whose stored area depends on the widget state, for comparison)
render_ref_stateful_dep(old, a, ws) == IF ws = 1 THEN a ELSE old
render_ref_stateful(old, a, ws) == a

\* the closure registered by new(): `let area = area_clone.borrow();
\* W::on_event(ctx, state, *area)`; a directly registered closure has no area
on_event_area(ws, w) == IF w = None THEN None ELSE ws[w].area

EmptyMap == [k \in Keys |-> None]
NoEvent == [src |-> 0, seq |-> 0]
Unborn == [st |-> "unborn", area |-> None, cb |-> None, rendered |-> None]

Top == stack[Len(stack)]
TotalSent == Cardinality({<<p, n>> \in Sources \X (1..MaxSends) : n <= sent[p]})

\* number of passes that have received their event so far
PassCount == TotalSent - Len(queue)

\* the host thread is executing user code: the main loop, or a callback body
HostRunning ==
    /\ panicked = "none"
    /\ IF stack = <<>> THEN TRUE ELSE Top.phase = "incb"

\* the area cell of w is borrowed by a running callback of w
\* (`let area = area_clone.borrow()` lives for the whole on_event call)
AreaBorrowed(w) ==
    \E i \in 1..Len(stack) :
        /\ stack[i].phase = "incb"
        /\ stack[i].running = wrappers[w].cb

\* the InternalEventController (receiver, sender, callbacks) exists
HubAlive == holders(root, wrappers) > 0

\* history of HashMap::remove and send, kept only in behaviours that start with it on
Off == [op |-> "off", key |-> None, ret |-> None]
Other == [op |-> "other", key |-> None, ret |-> None]
Removed(k, ret) == [op |-> "remove", key |-> k, ret |-> ret]
\* the callback of key k was invoked while it was (1) or was no longer (0)
\* the entry of k in the hub's map
Invoked(k, live) == [op |-> "invoke", key |-> k, ret |-> live]
\* Sender::send by producer p returned Ok (1) or Err(SendError) (0)
Sent(p, ok) == [op |-> "send", key |-> p, ret |-> ok]
Record(o) == IF lastOp.op = "off" THEN lastOp ELSE o

\* ------------------------------------------------------------------ Init
Init ==
    /\ callbacks = EmptyMap
    /\ queue = <<>>
    /\ handles = [p \in Producers |-> FALSE]
    /\ sent = [p \in Sources |-> 0]
    /\ wrappers = [w \in Wrappers |-> Unborn]
    /\ stack = <<>>
    /\ borrow = 0
    /\ panicked = "none"
    /\ regs = <<>>
    /\ log = <<>>
    /\ lastOp = Off
    /\ root = TRUE

InitRecorded ==
    /\ callbacks = EmptyMap
    /\ queue = <<>>
    /\ handles = [p \in Producers |-> FALSE]
    /\ sent = [p \in Sources |-> 0]
    /\ wrappers = [w \in Wrappers |-> Unborn]
    /\ stack = <<>>
    /\ borrow = 0
    /\ panicked = "none"
    /\ regs = <<>>
    /\ log = <<>>
    /\ lastOp = Other
    /\ root = TRUE

\* --------------------------------------------------------------- actions

\* EventController::add_listener(id, callback) called directly
AddListener(k) ==
    /\ HostRunning
    /\ root
    /\ Len(regs) < MaxRegs
    /\ lastOp' = Record(Other)
    /\ IF borrow_mut_ok(borrow)
       THEN /\ callbacks' = add_listener(callbacks, k, Len(regs) + 1)
            /\ regs' = Append(regs, [key |-> k, owner |-> None])
            /\ UNCHANGED panicked
       ELSE /\ panicked' = "hub"
            /\ UNCHANGED <<callbacks, regs>>
    /\ UNCHANGED <<queue, handles, sent, wrappers, stack, borrow, log, root>>

\* EventController::remove_listener(id) called directly
RemoveListener(k) ==
    /\ HostRunning
    /\ root
    /\ lastOp' = Record(Removed(k, callbacks[k]))
    /\ IF borrow_mut_ok(borrow)
       THEN /\ callbacks' = remove_listener(callbacks, k)
            /\ UNCHANGED panicked
       ELSE /\ panicked' = "hub"
            /\ UNCHANGED callbacks
    /\ UNCHANGED <<queue, handles, sent, wrappers, stack, borrow, regs, log, root>>

\* EventController::get_sender(), the clone moved into producer thread p
GetSender(p) ==
    /\ HostRunning
    /\ root
    /\ ~handles[p]
    /\ lastOp' = Record(Other)
    /\ IF borrow_ok(borrow)
       THEN handles' = [handles EXCEPT ![p] = TRUE] /\ UNCHANGED panicked
       ELSE panicked' = "hub" /\ UNCHANGED handles
    /\ UNCHANGED <<callbacks, queue, sent, wrappers, stack, borrow, regs, log, root>>

\* a producer thread: sender.send(event); Err(SendError) once the Receiver
\* is gone
Send(p) ==
    /\ panicked = "none"
    /\ handles[p]
    /\ IF HubAlive
       THEN /\ TotalSent < MaxSends
            /\ queue' = send(queue, [src |-> p, seq |-> sent[p] + 1])
            /\ sent' = [sent EXCEPT ![p] = @ + 1]
            /\ lastOp' = Record(Sent(p, 1))
       ELSE /\ lastOp' = Record(Sent(p, 0))
            /\ UNCHANGED <<queue, sent>>
    /\ UNCHANGED <<callbacks, handles, wrappers, stack, borrow, panicked, regs, log, root>>

\* a producer thread ends: its Sender is dropped
DropSender(p) ==
    /\ panicked = "none"
    /\ handles[p]
    /\ handles' = [handles EXCEPT ![p] = FALSE]
    /\ lastOp' = Record(Other)
    /\ UNCHANGED <<callbacks, queue, sent, wrappers, stack, borrow, panicked, regs, log, root>>

\* the host thread (main loop or a callback): get_sender().send(event)
HostSend ==
    /\ HostRunning
    /\ root
    /\ TotalSent < MaxSends
    /\ lastOp' = Record(IF borrow_ok(borrow) THEN Sent(0, 1) ELSE Other)
    /\ IF borrow_ok(borrow)
       THEN /\ queue' = send(queue, [src |-> 0, seq |-> sent[0] + 1])
            /\ sent' = [sent EXCEPT ![0] = @ + 1]
            /\ UNCHANGED panicked
       ELSE /\ panicked' = "hub"
            /\ UNCHANGED <<queue, sent>>
    /\ UNCHANGED <<callbacks, handles, wrappers, stack, borrow, regs, log, root>>

\* InteractiveWidget::new(widget, &controller)
NewWrapper(w) ==
    /\ HostRunning
    /\ root
    /\ wrappers[w].st = "unborn"
    /\ Len(regs) < MaxRegs
    /\ lastOp' = Record(Other)
    /\ IF borrow_mut_ok(borrow)
       THEN /\ callbacks' = add_listener(callbacks, unique_key(w), Len(regs) + 1)
            /\ regs' = Append(regs, [key |-> unique_key(w), owner |-> w])
            /\ wrappers' = [wrappers EXCEPT ![w] =
                              [st |-> "live", area |-> None, cb |-> Len(regs) + 1,
                               rendered |-> None]]
            /\ UNCHANGED panicked
       ELSE /\ panicked' = "hub"
            /\ UNCHANGED <<callbacks, regs, wrappers>>
    /\ UNCHANGED <<queue, handles, sent, stack, borrow, log, root>>

\* Drop for InteractiveWidget: remove_listener, then the fields are dropped;
\* the last holder's rc takes the hub, its map and its queue with it
DropWrapper(w) ==
    /\ HostRunning
    /\ wrappers[w].st = "live"
    /\ lastOp' = Record(Removed(unique_key(w), callbacks[unique_key(w)]))
    /\ wrappers' = [wrappers EXCEPT ![w].st = "dropped"]
    /\ IF borrow_mut_ok(borrow)
       THEN /\ callbacks' = IF holders(root, wrappers') > 0
                            THEN drop(callbacks, w) ELSE EmptyMap
            /\ queue' = IF holders(root, wrappers') > 0 THEN queue ELSE <<>>
            /\ UNCHANGED panicked
       ELSE /\ panicked' = "hub"
            /\ UNCHANGED <<callbacks, queue>>
    /\ UNCHANGED <<handles, sent, stack, borrow, regs, log, root>>

\* the application drops its EventController handle (never inside a pass:
\* recv_and_notify borrows it)
DropRoot ==
    /\ panicked = "none"
    /\ stack = <<>>
    /\ root
    /\ root' = FALSE
    /\ callbacks' = IF holders(FALSE, wrappers) > 0 THEN callbacks ELSE EmptyMap
    /\ queue' = IF holders(FALSE, wrappers) > 0 THEN queue ELSE <<>>
    /\ lastOp' = Record(Other)
    /\ UNCHANGED <<handles, sent, wrappers, stack, borrow, panicked, regs, log>>

\* WidgetRef::render_ref(&self, area, buf)
RenderRef(w, a) ==
    /\ HostRunning
    /\ wrappers[w].st = "live"
    /\ lastOp' = Record(Other)
    /\ IF AreaBorrowed(w)
       THEN panicked' = "area" /\ UNCHANGED wrappers
       ELSE /\ wrappers' = [wrappers EXCEPT ![w].area = render_ref(@, a),
                                            ![w].rendered = a]
            /\ UNCHANGED panicked
    /\ UNCHANGED <<callbacks, queue, handles, sent, stack, borrow, regs, log, root>>

\* StatefulWidgetRef::render_ref(&self, area, buf, state) of an
\* InteractiveStatefulWidget
RenderRefStateful(w, a, ws) ==
    /\ HostRunning
    /\ wrappers[w].st = "live"
    /\ lastOp' = Record(Other)
    /\ IF AreaBorrowed(w)
       THEN panicked' = "area" /\ UNCHANGED wrappers
       ELSE /\ wrappers' = [wrappers EXCEPT ![w].area = render_ref_stateful(@, a, ws),
                                            ![w].rendered = a]
            /\ UNCHANGED panicked
    /\ UNCHANGED <<callbacks, queue, handles, sent, stack, borrow, regs, log, root>>

\* recv_and_notify is entered: self.rc.borrow() is taken, recv() is called
CallRecvAndNotify ==
    /\ HostRunning
    /\ root
    /\ lastOp' = Record(Other)
    /\ IF borrow_ok(borrow)
       THEN /\ borrow' = borrow + 1
            /\ stack' = Append(stack, [phase |-> "recv", event |-> NoEvent,
                                       snapshot |-> EmptyMap, done |-> {},
                                       running |-> None, pass |-> None,
                                       regsAt |-> 0, droppedAt |-> {}])
            /\ UNCHANGED panicked
       ELSE /\ panicked' = "hub"
            /\ UNCHANGED <<borrow, stack>>
    /\ UNCHANGED <<callbacks, queue, handles, sent, wrappers, regs, log, root>>

\* recv() returns: Ok(event), then the snapshot is cloned; or Err, propagated by `?`
Receive ==
    /\ panicked = "none"
    /\ stack # <<>>
    /\ Top.phase = "recv"
    /\ recv(queue, senders(handles)) # "block"
    /\ lastOp' = Record(Other)
    /\ IF recv(queue, senders(handles)) = "ok"
       THEN /\ queue' = Tail(queue)
            /\ borrow' = release(borrow)
            /\ stack' = [stack EXCEPT ![Len(stack)] =
                            [phase |-> "iter", event |-> Head(queue),
                             snapshot |-> callbacks, done |-> {},
                             running |-> None, pass |-> PassCount + 1,
                             regsAt |-> Len(regs),
                             droppedAt |-> {w \in Wrappers : wrappers[w].st = "dropped"}]]
       ELSE /\ borrow' = borrow - 1
            /\ stack' = SubSeq(stack, 1, Len(stack) - 1)
            /\ UNCHANGED queue
    /\ UNCHANGED <<callbacks, handles, sent, wrappers, panicked, regs, log, root>>

\* one iteration of `for callback in callbacks.values()`: (callback)(ctx, state)
\* is entered; a wrapper's closure reads its area cell and calls W::on_event
InvokeCallback(k) ==
    /\ panicked = "none"
    /\ stack # <<>>
    /\ Top.phase = "iter"
    /\ \E cb \in 1..Len(regs) :
        /\ <<k, cb>> \in values(Top.snapshot, callbacks, Top.done)
        /\ stack' = [stack EXCEPT ![Len(stack)].phase = "incb",
                                  ![Len(stack)].done = @ \cup {k},
                                  ![Len(stack)].running = cb]
        /\ log' = Append(log, [cb |-> cb, event |-> Top.event,
                               area |-> on_event_area(wrappers, regs[cb].owner),
                               pass |-> Top.pass])
        /\ lastOp' = Record(Invoked(k, IF callbacks[k] = cb THEN 1 ELSE 0))
    /\ UNCHANGED <<callbacks, queue, handles, sent, wrappers, borrow, panicked, regs, root>>

\* the running callback returns
ReturnCallback ==
    /\ panicked = "none"
    /\ stack # <<>>
    /\ Top.phase = "incb"
    /\ stack' = [stack EXCEPT ![Len(stack)].phase = "iter",
                              ![Len(stack)].running = None]
    /\ lastOp' = Record(Other)
    /\ UNCHANGED <<callbacks, queue, handles, sent, wrappers, borrow, panicked, regs, log, root>>

\* the for loop is over: Ok(())
FinishPass ==
    /\ panicked = "none"
    /\ stack # <<>>
    /\ Top.phase = "iter"
    /\ values(Top.snapshot, callbacks, Top.done) = {}
    /\ stack' = SubSeq(stack, 1, Len(stack) - 1)
    /\ lastOp' = Record(Other)
    /\ UNCHANGED <<callbacks, queue, handles, sent, wrappers, borrow, panicked, regs, log, root>>

\* -------------------------------------------------------- specifications

\* the registry and the dispatch pass: listeners and wrappers come and go,
\* between passes and inside callbacks; events come from the host thread
NextRegistry ==
    \/ \E k \in Keys : AddListener(k)
    \/ \E k \in Keys : RemoveListener(k)
    \/ HostSend
    \/ \E w \in Wrappers : NewWrapper(w)
    \/ \E w \in Wrappers : DropWrapper(w)
    \/ CallRecvAndNotify
    \/ Receive
    \/ \E k \in Keys : InvokeCallback(k)
    \/ ReturnCallback
    \/ FinishPass

SpecRegistry == Init /\ [][NextRegistry]_vars

\* direct registration and removal, between passes and inside callbacks,
\* with the history of HashMap::remove recorded
NextUnregister ==
    \/ \E k \in Keys : AddListener(k)
    \/ \E k \in Keys : RemoveListener(k)
    \/ HostSend
    \/ CallRecvAndNotify
    \/ Receive
    \/ \E k \in Keys : InvokeCallback(k)
    \/ ReturnCallback
    \/ FinishPass

SpecUnregister == InitRecorded /\ [][NextUnregister]_vars

\* the channel: producer threads with cloned senders, listeners registered
\* directly, passes (nested ones included)
NextChannel ==
    \/ \E k \in Keys : AddListener(k)
    \/ \E p \in Producers : GetSender(p)
    \/ \E p \in Producers : Send(p)
    \/ \E p \in Producers : DropSender(p)
    \/ CallRecvAndNotify
    \/ Receive
    \/ \E k \in Keys : InvokeCallback(k)
    \/ ReturnCallback
    \/ FinishPass

SpecChannel == Init /\ [][NextChannel]_vars

\* rendering: wrappers are built, rendered and dropped, events are dispatched
NextRender ==
    \/ HostSend
    \/ \E w \in Wrappers : NewWrapper(w)
    \/ \E w \in Wrappers : DropWrapper(w)
    \/ \E w \in Wrappers, a \in Areas : RenderRef(w, a)
    \/ CallRecvAndNotify
    \/ Receive
    \/ \E k \in Keys : InvokeCallback(k)
    \/ ReturnCallback
    \/ FinishPass

SpecRender == Init /\ [][NextRender]_vars

\* the hub's lifetime: the application's handle and the wrappers are dropped
\* in any order while producer threads keep sending
NextLifetime ==
    \/ \E p \in Producers : GetSender(p)
    \/ \E p \in Producers : Send(p)
    \/ \E p \in Producers : DropSender(p)
    \/ \E w \in Wrappers : NewWrapper(w)
    \/ \E w \in Wrappers : DropWrapper(w)
    \/ DropRoot
    \/ CallRecvAndNotify
    \/ Receive
    \/ \E k \in Keys : InvokeCallback(k)
    \/ ReturnCallback
    \/ FinishPass

SpecLifetime == InitRecorded /\ [][NextLifetime]_vars

\* rendering with the stateful wrapper: every wrapper is an
\* InteractiveStatefulWidget (new and Drop come from the same macro body)
NextStateful ==
    \/ HostSend
    \/ \E w \in Wrappers : NewWrapper(w)
    \/ \E w \in Wrappers : DropWrapper(w)
    \/ \E w \in Wrappers, a \in Areas, ws \in WidgetStates : RenderRefStateful(w, a, ws)
    \/ CallRecvAndNotify
    \/ Receive
    \/ \E k \in Keys : InvokeCallback(k)
    \/ ReturnCallback
    \/ FinishPass

SpecStateful == Init /\ [][NextStateful]_vars

\* wrappers of one component type next to a direct registration under their
\* key: wrappers are built, rendered and dropped, events are dispatched
NextCollision ==
    \/ AddListener(unique_key(1))
    \/ HostSend
    \/ \E w \in Wrappers : NewWrapper(w)
    \/ \E w \in Wrappers : DropWrapper(w)
    \/ \E w \in Wrappers, a \in Areas : RenderRef(w, a)
    \/ CallRecvAndNotify
    \/ Receive
    \/ \E k \in Keys : InvokeCallback(k)
    \/ ReturnCallback
    \/ FinishPass

SpecCollision == Init /\ [][NextCollision]_vars

\* direct registrations and removals next to one rendered wrapper
NextFrame ==
    \/ \E k \in Keys : AddListener(k)
    \/ \E k \in Keys : RemoveListener(k)
    \/ HostSend
    \/ NewWrapper(1)
    \/ \E a \in Areas : RenderRef(1, a)
    \/ CallRecvAndNotify
    \/ Receive
    \/ \E k \in Keys : InvokeCallback(k)
    \/ ReturnCallback
    \/ FinishPass

SpecFrame == Init /\ [][NextFrame]_vars

\* ---------------------------------------------------------------- claims

\* frames that have received their event
Active == {i \in 1..Len(stack) : stack[i].phase # "recv"}
\* invocations of callback c logged for pass p
Entries(c, p) == {j \in 1..Len(log) : log[j].cb = c /\ log[j].pass = p}
\* the last of the first n registrations made under key k
Latest(k, n) ==
    LET ids == {c \in 1..n : regs[c].key = k}
    IN IF ids = {} THEN None ELSE CHOOSE c \in ids : \A d \in ids : d <= c
\* the hub's map holds the callback that wrapper w registered
Holds(w) == wrappers[w].cb # None /\ callbacks[unique_key(w)] = wrappers[w].cb

\* C1: add_listener(k, c2) after add_listener(k, c1) leaves c2 as the one
\* callback of k; a pass invokes, for each key, only the latest callback
\* registered under it when the pass took its snapshot, exactly once, and
\* never a callback that had been replaced by then.
C1_RegistrationReplace ==
    /\ [](\A k \in Keys : callbacks[k] \in {None, Latest(k, Len(regs))})
    /\ [][\A k \in Keys : AddListener(k) =>
            /\ panicked' = "none"
            /\ callbacks'[k] = Len(regs) + 1
            /\ regs'[Len(regs) + 1].key = k]_vars
    /\ [](\A i \in Active : \A j \in 1..Len(log) :
            log[j].pass = stack[i].pass =>
                /\ log[j].cb = Latest(regs[log[j].cb].key, stack[i].regsAt)
                /\ Cardinality(Entries(log[j].cb, log[j].pass)) = 1)
    /\ [](\A i \in Active : \A k \in stack[i].done :
            Cardinality(Entries(stack[i].snapshot[k], stack[i].pass)) = 1)

\* two callbacks were registered under one key, a pass has run to its end,
\* and it invoked the second and not the first
C1_Witness ==
    /\ Len(regs) = 2
    /\ regs[1].key = regs[2].key
    /\ regs[1].owner = None /\ regs[2].owner = None
    /\ stack = <<>>
    /\ \E j \in 1..Len(log) : log[j].cb = 2
    /\ \A j \in 1..Len(log) : log[j].cb # 1

\* C2: a pass that takes its snapshot after a wrapper was dropped never
\* invokes the callback that wrapper registered.
C2_LifetimeBinding ==
    \A i \in Active : \A j \in 1..Len(log) :
        log[j].pass = stack[i].pass => regs[log[j].cb].owner \notin stack[i].droppedAt

\* construct, send, dispatch, drop, send, dispatch: one invocation, in pass 1
C2_Witness ==
    \E w \in Wrappers :
        /\ wrappers[w].st = "dropped"
        /\ Len(regs) = 1
        /\ stack = <<>> /\ queue = <<>>
        /\ PassCount = 2
        /\ Len(log) = 1
        /\ log[1].cb = wrappers[w].cb /\ log[1].pass = 1

\* C3 as claimed: the map holds a wrapper's callback if and only if the
\* wrapper has been constructed and not yet dropped.
C3_Original ==
    \A w \in Wrappers : Holds(w) <=> wrappers[w].st = "live"

\* C3 as amended: the map holds a wrapper's callback from the wrapper's
\* construction until the next add_listener or remove_listener under its
\* key (the construction or the drop of a wrapper of the same component type
\* included), and never again: it never holds a dropped wrapper's callback,
\* and no operation under another key takes it out.
C3_SubscriptionLifetime ==
    /\ [](\A w \in Wrappers : Holds(w) => wrappers[w].st = "live")
    /\ [][\A w \in Wrappers : NewWrapper(w) => Holds(w)']_vars
    /\ [][\A w \in Wrappers : (Holds(w) /\ ~Holds(w)') =>
            \/ AddListener(unique_key(w))
            \/ RemoveListener(unique_key(w))
            \/ \E x \in Wrappers :
                /\ unique_key(x) = unique_key(w)
                /\ NewWrapper(x) \/ DropWrapper(x)]_vars
    /\ [][\A w \in Wrappers : (~Holds(w) /\ Holds(w)') => NewWrapper(w)]_vars

\* two wrappers of the same component type are alive; the map holds the
\* callback of the one built last
C3_Witness ==
    \E w, x \in Wrappers :
        /\ wrappers[w].st = "live" /\ wrappers[x].st = "live"
        /\ wrappers[w].cb < wrappers[x].cb
        /\ Holds(x) /\ ~Holds(w)

\* C4: a callback registered while a pass is in progress is not invoked by
\* that pass: every callback a pass invokes was registered before the pass
\* took its snapshot, and the snapshot is the map as it is at that moment,
\* so the new callback is in the snapshot of every pass that starts later
\* while it is registered.
C4_ReentrantRegistration ==
    /\ [](\A i \in Active : \A j \in 1..Len(log) :
            log[j].pass = stack[i].pass => log[j].cb <= stack[i].regsAt)
    /\ [][(Receive /\ Len(stack') = Len(stack)) =>
            /\ stack'[Len(stack)].snapshot = callbacks
            /\ stack'[Len(stack)].regsAt = Len(regs)]_vars

\* a callback of pass 1 registered a new callback; pass 1 has not invoked
\* it; a pass started afterwards (nested in that callback) has
C4_Witness ==
    /\ Len(stack) = 2
    /\ stack[1].phase = "incb"
    /\ 2 \in Active
    /\ \E j \in 1..Len(log) :
        /\ log[j].cb > stack[1].regsAt
        /\ log[j].pass = stack[2].pass
    /\ \A j \in 1..Len(log) : log[j].pass = stack[1].pass => log[j].cb <= stack[1].regsAt

\* C5: while callbacks run no borrow of the hub's cell is held, so
\* add_listener, remove_listener, get_sender and a wrapper's drop inside a
\* callback never panic; they leave the snapshot and the progress of every
\* pass in progress as they are, and a pass ends only after every callback
\* of its snapshot was invoked.
C5_ReentrancyNoFault ==
    /\ [](panicked # "hub" /\ (HostRunning => borrow = 0))
    /\ [][(\/ \E k \in Keys : AddListener(k) \/ RemoveListener(k)
           \/ \E w \in Wrappers : NewWrapper(w) \/ DropWrapper(w)
           \/ HostSend) => (panicked' = "none" /\ stack' = stack)]_vars
    /\ [][FinishPass =>
            \A k \in Keys : Top.snapshot[k] # None =>
                Cardinality(Entries(Top.snapshot[k], Top.pass)) = 1]_vars

\* the first callback of a pass took a key of the snapshot out of the map
\* and returned; the loop goes on and has that key's callback still to invoke
C5_Witness ==
    /\ panicked = "none"
    /\ stack # <<>>
    /\ Top.phase = "iter"
    /\ Top.done # {}
    /\ \E k \in Keys \ Top.done : Top.snapshot[k] # None /\ callbacks[k] = None

\* C6: when every sender handle the producers obtained has been dropped and
\* the queue is empty, the receive of the next recv_and_notify returns the
\* disconnection error instead of blocking.
C6_DisconnectionTermination ==
    ( /\ stack # <<>>
      /\ Top.phase = "recv"
      /\ queue = <<>>
      /\ \E p \in Producers : sent[p] > 0
      /\ \A p \in Producers : ~handles[p] )
        => recv(queue, senders(handles)) = "err"

\* C7: a listener observes the events of one producer in send order, without
\* reordering, skipping or duplication: of two invocations of one callback
\* with events of one producer, the later has the later event, and the event
\* before it was not passed over while the callback was registered.
C7_DeliveryOrder ==
    \A i, j \in 1..Len(log) :
        (i < j /\ log[i].cb = log[j].cb /\ log[i].event.src = log[j].event.src)
            => log[i].event.seq < log[j].event.seq

\* C8: once as many passes have run to their end as events were sent by the
\* concurrent producers, a listener registered throughout (invoked by the
\* first pass and still registered) has been invoked exactly once per sent
\* event, and it observed each producer's events in that producer's send
\* order.
C8_ConcurrentProducers ==
    (stack = <<>> /\ queue = <<>>) =>
        \A c \in 1..Len(regs) :
            (callbacks[regs[c].key] = c /\ Entries(c, 1) # {}) =>
                LET seen == SelectSeq(log, LAMBDA e : e.cb = c)
                IN /\ Len(seen) = TotalSent
                   /\ \A p \in Producers :
                        LET ofP == SelectSeq(seen, LAMBDA e : e.event.src = p)
                        IN \A n \in 1..Len(ofP) : ofP[n].event.seq = n

\* C9: the area a pass hands to a wrapper's on_event is the area of the most
\* recent render_ref of that wrapper, and None if it was never rendered;
\* render_ref stores its area in the wrapper's cell.
C9_AreaPropagation ==
    /\ [](\A w \in Wrappers : wrappers[w].area = wrappers[w].rendered)
    /\ [][\A k \in Keys : InvokeCallback(k) =>
            LET e == log'[Len(log')]
                w == regs[e.cb].owner
            IN w # None => e.area = wrappers[w].rendered]_vars
    /\ [][\A w \in Wrappers : \A a \in Areas :
            (RenderRef(w, a) /\ panicked' = "none") => wrappers'[w].area = a]_vars

\* a wrapper was rendered with one area and later with another; its handler
\* was invoked after each and saw the first area, then the second
C9_Witness ==
    \E i, j \in 1..Len(log) :
        /\ i < j
        /\ log[i].cb = log[j].cb
        /\ regs[log[i].cb].owner # None
        /\ log[i].area = 1
        /\ log[j].area = 2

\* C10: remove_listener(k) never panics; it leaves k absent and every other
\* key as it was, changes nothing when k is absent, and a second
\* remove_listener(k) right after the first changes nothing.
C10_UnregisterIdempotence ==
    /\ [](panicked = "none")
    /\ [](\A k \in Keys :
            remove_listener(remove_listener(callbacks, k), k) = remove_listener(callbacks, k))
    /\ [][\A k \in Keys : RemoveListener(k) =>
            /\ panicked' = "none"
            /\ callbacks'[k] = None
            /\ \A j \in Keys \ {k} : callbacks'[j] = callbacks[j]
            /\ callbacks[k] = None => callbacks' = callbacks
            /\ (lastOp.op = "remove" /\ lastOp.key = k) => callbacks' = callbacks]_vars

\* a key that had been registered and removed was removed once more, while
\* another key is registered
C10_Witness ==
    /\ panicked = "none"
    /\ lastOp.op = "remove"
    /\ lastOp.ret = None
    /\ \E c \in 1..Len(regs) : regs[c].key = lastOp.key
    /\ \E j \in Keys \ {lastOp.key} : callbacks[j] # None

\* C12: the hub lives as long as the application's handle or a live wrapper
\* exists and is gone when the last of them is dropped, whatever callbacks
\* are registered; a producer's send succeeds while the hub lives, fails
\* once it is gone, and a hub that is gone never comes back.
C12_SendFollowsHubLifetime ==
    /\ [](lastOp.op = "send" =>
            (lastOp.ret = 1 <=>
                (root \/ \E w \in Wrappers : wrappers[w].st = "live")))
    /\ [](HubAlive <=> (root \/ \E w \in Wrappers : wrappers[w].st = "live"))
    /\ [][~HubAlive => ~HubAlive']_vars
    /\ [][\A p \in Producers : (Send(p) /\ HubAlive) =>
            (Len(queue') = Len(queue) + 1 /\ sent'[p] = sent[p] + 1)]_vars

\* the application's handle and every wrapper were dropped while a callback
\* was registered last, and a producer whose earlier send succeeded got an
\* error from its next send
C12_Witness ==
    /\ lastOp.op = "send"
    /\ lastOp.ret = 0
    /\ sent[lastOp.key] > 0
    /\ ~root
    /\ \E w \in Wrappers : wrappers[w].st = "dropped"

\* C13: only one dispatch pass is in progress at a time: while a pass that
\* has received its event has not finished its loop, no other pass has
\* received an event.
C13_OnePassAtATime ==
    Cardinality(Active) <= 1

\* C14: the stateful wrapper behaves as the stateless one: each render_ref
\* of a stateful wrapper, whatever the widget state, is a step the stateless
\* render_ref makes with the same area (same cached area, same map, same
\* panic), and the handler is invoked with the area of the last render.
C14_StatefulEquivalence ==
    /\ [][\A w \in Wrappers : \A a \in Areas : \A ws \in WidgetStates :
            RenderRefStateful(w, a, ws) => RenderRef(w, a)]_vars
    /\ [][\A k \in Keys : InvokeCallback(k) =>
            LET e == log'[Len(log')]
                w == regs[e.cb].owner
            IN w # None => e.area = wrappers[w].rendered]_vars
    /\ [](\A w \in Wrappers : Holds(w) => wrappers[w].st = "live")

\* a stateful wrapper was rendered and then dropped, and its handler was
\* invoked with the rendered area while it was registered
C14_Witness ==
    \E w \in Wrappers : \E j \in 1..Len(log) :
        /\ wrappers[w].st = "dropped"
        /\ wrappers[w].rendered = 2
        /\ log[j].cb = wrappers[w].cb
        /\ log[j].area = 2

C16_OneEventPerPass ==
    /\ [][(Receive /\ Len(stack') = Len(stack)) =>
            /\ queue # <<>>
            /\ queue' = Tail(queue)
            /\ stack'[Len(stack)].event = Head(queue)]_vars
    /\ [][Len(queue') < Len(queue) => Receive]_vars
    /\ [](\A i \in Active : \A j \in 1..Len(log) :
            log[j].pass = stack[i].pass => log[j].event = stack[i].event)
    /\ [](\A i, j \in 1..Len(log) :
            log[i].pass = log[j].pass <=> log[i].event = log[j].event)
    /\ [](\A i \in Active : \A n \in 1..Len(queue) : queue[n] # stack[i].event)
    /\ [][HostSend =>
            /\ Len(queue') = Len(queue) + 1
            /\ SubSeq(queue', 1, Len(queue)) = queue
            /\ \A i \in Active : stack[i].event # queue'[Len(queue')]
            /\ \A j \in 1..Len(log') : log'[j].event # queue'[Len(queue')]]_vars

\* a callback of the pass for the first event has just sent a second event:
\* it waits in the queue and the pass has handed it to no callback
C16_Witness ==
    /\ lastOp = Sent(0, 1)
    /\ Len(stack) = 1
    /\ Top.phase = "incb"
    /\ Top.event = [src |-> 0, seq |-> 1]
    /\ queue = <<[src |-> 0, seq |-> 2]>>
    /\ \A j \in 1..Len(log) : log[j].event = Top.event

\* C17: every event that was sent is dispatched in the end: when nothing
\* more can happen (the host thread waits in recv on an empty queue and no
\* producer thread holds a sender), every event that was received has been
\* handed to all the callbacks of its pass: no pass has a callback of its
\* snapshot still to invoke.
C17_EventuallyDispatched ==
    ( /\ stack # <<>>
      /\ Top.phase = "recv"
      /\ queue = <<>>
      /\ \A p \in Producers : ~handles[p] )
        => \A i \in Active : values(stack[i].snapshot, callbacks, stack[i].done) = {}

\* C19: of the wrappers of one component type only the one built last is in
\* the map; a pass invokes at most one callback per key, a wrapper's with
\* the area cached by that wrapper; a wrapper's drop empties the entry of
\* the shared key whoever registered it, and a live wrapper that is not in
\* the map is in no snapshot taken from then on.
C19_KeyCollision ==
    /\ [](\A w, x \in Wrappers : (Holds(w) /\ Holds(x)) => w = x)
    /\ [][\A w \in Wrappers : NewWrapper(w) =>
            /\ Holds(w)'
            /\ \A x \in Wrappers \ {w} : ~Holds(x)']_vars
    /\ [][\A w \in Wrappers : DropWrapper(w) =>
            /\ \A k \in Keys : callbacks'[k] = None
            /\ \A x \in Wrappers : ~Holds(x)']_vars
    /\ [][\A k \in Keys : InvokeCallback(k) =>
            LET e == log'[Len(log')]
                w == regs[e.cb].owner
            IN /\ w # None => e.area = wrappers[w].rendered
               /\ Cardinality({j \in 1..Len(log') : log'[j].pass = e.pass}) = 1]_vars
    /\ [][(Receive /\ Len(stack') = Len(stack)) =>
            \A x \in Wrappers : (wrappers[x].st = "live" /\ ~Holds(x)) =>
                stack'[Len(stack)].snapshot[unique_key(x)] # wrappers[x].cb]_vars
    /\ [](\A i \in Active : \A j \in 1..Len(log) :
            log[j].pass = stack[i].pass =>
                stack[i].snapshot[regs[log[j].cb].key] = log[j].cb)

\* two wrappers were alive together; pass 1 invoked the handler once, with
\* the area of the one built last; the one built first was dropped; pass 2
\* invoked nothing although the other wrapper is alive
C19_Witness ==
    \E w, x \in Wrappers :
        /\ wrappers[w].st = "dropped"
        /\ wrappers[x].st = "live"
        /\ wrappers[w].cb < wrappers[x].cb
        /\ wrappers[w].rendered = 1
        /\ stack = <<>> /\ queue = <<>>
        /\ PassCount = 2
        /\ Len(log) = 1
        /\ log[1].cb = wrappers[x].cb
        /\ log[1].area = 2

\* C20: a registration changes the map at its key only, a removal empties
\* one key only, and neither changes the queue, the cached areas, the
\* handler invocations or the passes in progress; no step of
\* recv_and_notify changes the map.
C20_RegistryFrame ==
    /\ [][Len(regs') > Len(regs) =>
            /\ \A j \in Keys \ {regs'[Len(regs')].key} : callbacks'[j] = callbacks[j]
            /\ queue' = queue /\ log' = log /\ stack' = stack
            /\ \A w \in Wrappers : wrappers'[w].area = wrappers[w].area]_vars
    /\ [][(callbacks' # callbacks /\ regs' = regs) =>
            /\ \E k \in Keys : callbacks' = [callbacks EXCEPT ![k] = None]
            /\ queue' = queue /\ log' = log /\ stack' = stack
            /\ wrappers' = wrappers]_vars
    /\ [][stack' # stack => callbacks' = callbacks]_vars

\* inside a callback, after a render and with an event waiting, a key was
\* registered and the snapshot's other key is still in the map
C20_Witness ==
    /\ stack # <<>>
    /\ Top.phase = "incb"
    /\ Len(regs) > Top.regsAt
    /\ queue # <<>>
    /\ wrappers[1].area # None
    /\ \E k \in Keys :
        /\ regs[Len(regs)].key # k
        /\ Top.snapshot[k] # None
        /\ callbacks[k] = Top.snapshot[k]

\* C21: render_ref sets the cached area of its own wrapper to the area it
\* is given and changes nothing else: not the map, the queue, the handler
\* invocations, the passes in progress or another wrapper's cached area;
\* and no other step (construction, drop, the steps of a pass) changes a
\* cached area.
C21_RenderFrame ==
    /\ [][\A w \in Wrappers : wrappers'[w].rendered # wrappers[w].rendered =>
            /\ wrappers'[w].area = wrappers'[w].rendered
            /\ wrappers'[w].area \in Areas
            /\ \A x \in Wrappers \ {w} : wrappers'[x] = wrappers[x]
            /\ wrappers'[w].st = wrappers[w].st /\ wrappers'[w].cb = wrappers[w].cb
            /\ callbacks' = callbacks /\ queue' = queue /\ regs' = regs
            /\ log' = log /\ stack' = stack]_vars
    /\ [][\A w \in Wrappers : wrappers'[w].area # wrappers[w].area =>
            /\ wrappers[w].st = "live"
            /\ wrappers'[w].rendered = wrappers'[w].area
            /\ stack' = stack /\ callbacks' = callbacks]_vars
    /\ [][(stack' # stack \/ callbacks' # callbacks \/ queue' # queue) =>
            \A w \in Wrappers : wrappers'[w].area = wrappers[w].area]_vars

\* while a callback runs and an event waits, one of two live wrappers has
\* been rendered and the other still has no cached area
C21_Witness ==
    /\ stack # <<>>
    /\ Top.phase = "incb"
    /\ queue # <<>>
    /\ \E w, x \in Wrappers :
        /\ wrappers[w].st = "live" /\ wrappers[x].st = "live"
        /\ wrappers[w].area = 2
        /\ wrappers[x].area = None
        /\ Holds(x)

====
